---- MODULE Spec2Model ----
(***************************************************************************)
(* Bank Compliance & Accessibility Auditor.                                *)
(*                                                                         *)
(* The model covers the configuration loader (config.js), the auditor     *)
(* (auditor.js: classification, status, compliance score), the threshold  *)
(* checker (complianceChecker.js), the report generator                   *)
(* (reportGenerator.js), the audit CLI (index.js), the compliance-check   *)
(* script and the HTTP service (server.js).                               *)
(*                                                                         *)
(* Three specifications share the variables:                              *)
(*   Spec        one run of the audit CLI, followed or preceded by the    *)
(*               compliance-check script;                                 *)
(*   SpecScore   the scoring functions applied to issue sets built the    *)
(*               way the unit tests build them;                           *)
(*   SpecServer  the long-lived HTTP service.                             *)
(***************************************************************************)
EXTENDS Integers, Sequences, FiniteSets, TLC

(***************************************************************************)
(* Bounds of the model.                                                    *)
(***************************************************************************)
\* longest list of findings the scan engine returns
MaxFindings == 2
\* last instant of the clock; one calendar day lasts TicksPerDay instants
MaxTime == 1
TicksPerDay == 1
\* largest bucket sizes of the issue sets the scoring harness builds
ScoreMaxCritical == 2
ScoreMaxSerious == 3
ScoreMaxModerate == 2
ScoreMaxMinor == 96
\* service: the number of run requests the service receives
MaxRuns == 2
\* the records the history of a long-running service holds at most
MaxHistory == 21

VARIABLES
  config,            \* the object exported by config.js
  now,               \* the clock read by new Date() and Date.now()
  pc,                \* position of main() in index.js
  results,           \* auditResults in main(): null or an AuditResult
  complianceResult,  \* complianceResult in main(): null or a ComplianceResult
  error,             \* the exception caught by main(): "none" or its kind
  exitCode,          \* the code main() passed to process.exit, -1 before
  reportsDir,        \* whether the report output directory exists
  jsonFiles,         \* day -> content of compliance-report-<day>.json
  htmlFiles,         \* day -> content of compliance-report-<day>.html
  webhookPosts,      \* messages the webhook endpoint has accepted
  checkPc,           \* position of the compliance-check script
  checkResult,       \* its complianceResult: null or a ComplianceResult
  checkError,        \* the exception its catch block caught
  checkExit,         \* its exit code, -1 before
  scanOutcome,       \* what pa11y settled to in main(): null while pending
  tIssues,           \* scoring harness: the issue set under test
  tScore,            \* scoring harness: _calculateCompliance(tIssues)
  tStatus,           \* scoring harness: _determineStatus(tIssues)
  tCode,             \* lookup harness: the rule code under test
  tLevel,            \* lookup harness: _getWCAGLevel(tCode)
  tCriteria,         \* lookup harness: _getWCAGCriteria(tCode)
  latestAudit,       \* server.js: null or the latest audit record
  auditHistory,      \* server.js: the list of audit records
  runs,              \* server.js: the POST /api/audit/run requests
  runResponse,       \* server.js: the last response to such a request
  download,          \* server.js: the response to the last GET /reports/:filename
  queryResponse      \* server.js: the response to the last GET /api/audit/...

cliVars ==
  <<pc, scanOutcome, results, complianceResult, error, exitCode, webhookPosts>>
checkVars == <<checkPc, checkResult, checkError, checkExit>>
diskVars == <<reportsDir, jsonFiles, htmlFiles>>
harnessVars == <<tIssues, tScore, tStatus, tCode, tLevel, tCriteria>>
serverVars ==
  <<latestAudit, auditHistory, runs, runResponse, download, queryResponse>>
vars ==
  <<config, now, cliVars, checkVars, diskVars, harnessVars, serverVars>>

(***************************************************************************)
(* JavaScript values.                                                      *)
(***************************************************************************)
\* null and undefined are not told apart: the code only tests truthiness
null == [null |-> TRUE]

\* a JavaScript number that is an integer or NaN
Num(n) == [nan |-> FALSE, v |-> n]
NaN == [nan |-> TRUE, v |-> 0]

\* count > threshold and count <= threshold; every comparison with NaN is false
JsGT(count, threshold) == ~threshold.nan /\ count > threshold.v
JsLE(count, threshold) == ~threshold.nan /\ count <= threshold.v

\* a thrown exception or a returned value
Throw(kind) == [threw |-> TRUE, kind |-> kind]
Return(value) == [threw |-> FALSE, value |-> value]

Digits == {"0", "1", "2", "3", "4", "5", "6", "7", "8", "9"}
DigitValue(c) ==
  CASE c = "0" -> 0 [] c = "1" -> 1 [] c = "2" -> 2 [] c = "3" -> 3
    [] c = "4" -> 4 [] c = "5" -> 5 [] c = "6" -> 6 [] c = "7" -> 7
    [] c = "8" -> 8 [] c = "9" -> 9

\* the length of the longest prefix of s made of decimal digits
RECURSIVE DigitPrefixLen(_)
DigitPrefixLen(s) ==
  IF s = <<>> \/ Head(s) \notin Digits THEN 0 ELSE 1 + DigitPrefixLen(Tail(s))

\* the value of a non-empty sequence of decimal digits
RECURSIVE DecimalValue(_)
DecimalValue(s) ==
  IF s = <<>> THEN 0
  ELSE 10 * DecimalValue(SubSeq(s, 1, Len(s) - 1)) + DigitValue(s[Len(s)])

\* parseInt of a string given as its sequence of characters: an optional
\* sign, then the longest run of digits; NaN when there is no digit
parseInt(s) ==
  LET signed == s # <<>> /\ Head(s) \in {"-", "+"}
      body == IF signed THEN Tail(s) ELSE s
      n == DigitPrefixLen(body)
      magnitude == DecimalValue(SubSeq(body, 1, n))
  IN IF n = 0 THEN NaN
     ELSE IF signed /\ Head(s) = "-" THEN Num(0 - magnitude)
     ELSE Num(magnitude)

\* value || fallback: the unset or empty string is falsy
OrElse(value, fallback) == IF value = "" THEN fallback ELSE value
\* the same for a string given as its sequence of characters
OrElseChars(value, fallback) == IF value = <<>> THEN fallback ELSE value

(***************************************************************************)
(* config.js                                                               *)
(***************************************************************************)
\* The environments the model starts from.  Thresholds are character
\* sequences (<<>> is unset); the other variables are strings ("" is unset).
\* Without webhook and strict mode, every combination of the critical and
\* serious maxima is tried with the default moderate maximum, and every
\* moderate maximum with the default critical and serious maxima; every
\* combination of webhook and strict mode is tried with the default maxima.
EnvMaxCritical == {<<>>, <<"1">>, <<"a", "b", "c">>}
EnvMaxSerious == {<<>>, <<"0">>, <<"n", "o", "n", "e">>}
EnvMaxModerate == {<<>>, <<"0">>}
EnvFailOnSerious == {"", "true"}
EnvWebhook == {"", "https://hooks.example/ci"}
EnvStrict == {[STRICT_MODE |-> "", API_KEY |-> ""],
              [STRICT_MODE |-> "true", API_KEY |-> ""],
              [STRICT_MODE |-> "true", API_KEY |-> "secret"]}

Environment(c, s, m, f, w, k) ==
  [AUDIT_URL |-> "",
   MAX_CRITICAL_ISSUES |-> c, MAX_SERIOUS_ISSUES |-> s,
   MAX_MODERATE_ISSUES |-> m, FAIL_ON_SERIOUS |-> f,
   NOTIFICATION_WEBHOOK |-> w,
   STRICT_MODE |-> k.STRICT_MODE, API_KEY |-> k.API_KEY]

Environments ==
  {Environment(c, s, <<>>, f, "", [STRICT_MODE |-> "", API_KEY |-> ""]) :
     c \in EnvMaxCritical, s \in EnvMaxSerious, f \in EnvFailOnSerious}
  \cup {Environment(<<>>, <<>>, m, f, "", [STRICT_MODE |-> "", API_KEY |-> ""]) :
          m \in EnvMaxModerate, f \in EnvFailOnSerious}
  \cup {Environment(<<>>, <<>>, <<>>, f, w, k) :
          f \in EnvFailOnSerious, w \in EnvWebhook, k \in EnvStrict}

\* export const config = { ... }
LoadConfig(env) ==
  [auditUrl |-> OrElse(env.AUDIT_URL, "http://localhost:3000"),
   wcagLevel |-> "AA",
   wcagVersion |-> "2.1",
   apiKey |-> env.API_KEY,
   maxCriticalIssues |-> parseInt(OrElseChars(env.MAX_CRITICAL_ISSUES, <<"0">>)),
   maxSeriousIssues |-> parseInt(OrElseChars(env.MAX_SERIOUS_ISSUES, <<"5">>)),
   maxModerateIssues |-> parseInt(OrElseChars(env.MAX_MODERATE_ISSUES, <<"1", "5">>)),
   reportOutputDir |-> "./reports",
   failOnSerious |-> (env.FAIL_ON_SERIOUS = "true"),
   notificationWebhook |-> env.NOTIFICATION_WEBHOOK,
   strictMode |-> (env.STRICT_MODE = "true")]

\* validateConfig(): the list of errors; it throws when the list is not empty
validateConfigErrors(cfg) ==
  (IF cfg.auditUrl = "" THEN <<"AUDIT_URL environment variable is required">>
   ELSE <<>>)
  \o (IF cfg.strictMode /\ cfg.apiKey = ""
      THEN <<"API_KEY environment variable is required in strict mode">>
      ELSE <<>>)

validateConfig(cfg) ==
  IF Len(validateConfigErrors(cfg)) > 0 THEN Throw("ConfigurationError")
  ELSE Return(TRUE)

\* the configuration the unit tests construct
testConfig ==
  [wcagLevel |-> "AA", wcagVersion |-> "2.1",
   maxCriticalIssues |-> Num(0), maxSeriousIssues |-> Num(5),
   maxModerateIssues |-> Num(15), failOnSerious |-> TRUE]

(***************************************************************************)
(* auditor.js                                                              *)
(***************************************************************************)
Buckets == {"critical", "serious", "moderate", "minor"}

\* const severityMap = { error: ..., warning: ..., notice: ..., info: ... }
severityMap ==
  [error |-> "critical", warning |-> "serious", notice |-> "moderate",
   info |-> "minor"]

\* the property names every object literal inherits from Object.prototype
ObjectPrototypeKeys ==
  {"constructor", "toString", "toLocaleString", "valueOf", "hasOwnProperty",
   "isPrototypeOf", "propertyIsEnumerable", "__proto__"}

\* what an inherited member (a function or the prototype object) turns into
\* when it is used as a property key: never the name of a bucket
InheritedMember == "[inherited]"

\* const category = severityMap[issue.type] || 'minor'
category(type) ==
  IF type \in DOMAIN severityMap THEN severityMap[type]
  ELSE IF type \in ObjectPrototypeKeys THEN InheritedMember
  ELSE "minor"

\* the twelve rule codes of levelMap and criteriaMap
levelMap ==
  [c \in {"image-alt", "color-contrast", "heading-order", "label",
          "button-name", "link-name", "form-field-multiple-labels",
          "duplicate-id", "aria-required-attr", "aria-valid-attr",
          "select-name", "textarea-name"} |->
     IF c = "color-contrast" THEN "AA" ELSE "A"]

criteriaMap ==
  [c \in DOMAIN levelMap |->
     CASE c = "image-alt" -> "WCAG 2.1 Level A - 1.1.1 Non-text Content"
       [] c = "color-contrast" -> "WCAG 2.1 Level AA - 1.4.3 Contrast (Minimum)"
       [] c \in {"heading-order", "label", "form-field-multiple-labels"} ->
            "WCAG 2.1 Level A - 1.3.1 Info and Relationships"
       [] c = "duplicate-id" -> "WCAG 2.1 Level A - 4.1.1 Parsing"
       [] OTHER -> "WCAG 2.1 Level A - 4.1.2 Name, Role, Value"]

\* return levelMap[code] || 'AA'
_getWCAGLevel(code) ==
  IF code \in DOMAIN levelMap THEN levelMap[code]
  ELSE IF code \in ObjectPrototypeKeys THEN InheritedMember
  ELSE "AA"

\* return criteriaMap[code] || 'WCAG 2.1 Level A - General Accessibility'
_getWCAGCriteria(code) ==
  IF code \in DOMAIN criteriaMap THEN criteriaMap[code]
  ELSE IF code \in ObjectPrototypeKeys THEN InheritedMember
  ELSE "WCAG 2.1 Level A - General Accessibility"

emptyIssues ==
  [critical |-> <<>>, serious |-> <<>>, moderate |-> <<>>, minor |-> <<>>]

\* the object pushed into a bucket for one finding
Issue(finding) ==
  [code |-> finding.code, message |-> finding.message, type |-> finding.type,
   selector |-> finding.selector,
   wcagLevel |-> _getWCAGLevel(finding.code),
   wcagCriteria |-> _getWCAGCriteria(finding.code)]

\* categorize that skips a finding of unknown severity instead of filing it
\* under minor
RECURSIVE categorize_DropUnknown(_, _)
categorize_DropUnknown(findings, issues) ==
  IF findings = <<>> THEN Return(issues)
  ELSE LET cat == category(Head(findings).type)
       IN IF cat \notin Buckets THEN Throw("TypeError")
          ELSE IF Head(findings).type \notin DOMAIN severityMap
               THEN categorize_DropUnknown(Tail(findings), issues)
          ELSE categorize_DropUnknown(
                 Tail(findings),
                 [issues EXCEPT ![cat] = Append(@, Issue(Head(findings)))])

\* auditResult.issues.forEach(...): issues[category].push(...) throws a
\* TypeError when issues[category] is undefined
RECURSIVE categorize(_, _)
categorize(findings, issues) ==
  IF findings = <<>> THEN Return(issues)
  ELSE LET cat == category(Head(findings).type)
       IN IF cat \notin Buckets THEN Throw("TypeError")
          ELSE categorize(Tail(findings),
                          [issues EXCEPT ![cat] = Append(@, Issue(Head(findings)))])

\* _determineStatus that fails on serious issues whatever failOnSerious is
_determineStatus_IgnoresFlag(issues, cfg) ==
  IF JsGT(Len(issues.critical), cfg.maxCriticalIssues) THEN "FAILED"
  ELSE IF JsGT(Len(issues.serious), cfg.maxSeriousIssues) THEN "FAILED"
  ELSE "PASSED"

\* _determineStatus(issues)
_determineStatus(issues, cfg) ==
  IF JsGT(Len(issues.critical), cfg.maxCriticalIssues) THEN "FAILED"
  ELSE IF cfg.failOnSerious /\ JsGT(Len(issues.serious), cfg.maxSeriousIssues)
       THEN "FAILED"
  ELSE "PASSED"

\* The quotients k + 1/2 that Math.round(((maxPoints - points) / maxPoints)
\* * 100) rounds down to k: for these k the IEEE-754 double nearest to
\* (2k+1)/200, multiplied by 100, is the double just below k + 1/2.  Every
\* other half, and every value that is not a half, rounds as in exact
\* arithmetic (maxPoints stays far below 2^40).
HalvesRoundedDown == {14, 28, 56, 57}

\* Math.round(((maxPoints - points) / maxPoints) * 100) in double arithmetic
RoundedPercent(maxPoints, points) ==
  LET whole == (100 * (maxPoints - points)) \div maxPoints
      twiceRest == 200 * (maxPoints - points) - 2 * whole * maxPoints
  IN IF twiceRest > maxPoints THEN whole + 1
     ELSE IF twiceRest < maxPoints THEN whole
     ELSE IF whole \in HalvesRoundedDown THEN whole
     ELSE whole + 1

\* _calculateCompliance in which a minor issue costs no points
_calculateCompliance_FreeMinor(issues) ==
  LET total == Len(issues.critical) + Len(issues.serious)
               + Len(issues.moderate) + Len(issues.minor)
      points == Len(issues.critical) * 100 + Len(issues.serious) * 50
                + Len(issues.moderate) * 20
      maxPoints == total * 100
  IN IF total = 0 THEN 100 ELSE RoundedPercent(maxPoints, points)

\* _calculateCompliance with the weights of critical and minor exchanged
_calculateCompliance_SwappedWeights(issues) ==
  LET total == Len(issues.critical) + Len(issues.serious)
               + Len(issues.moderate) + Len(issues.minor)
      points == Len(issues.critical) * 5 + Len(issues.serious) * 50
                + Len(issues.moderate) * 20 + Len(issues.minor) * 100
      maxPoints == total * 100
  IN IF total = 0 THEN 100 ELSE RoundedPercent(maxPoints, points)

\* _calculateCompliance(issues)
_calculateCompliance(issues) ==
  LET total == Len(issues.critical) + Len(issues.serious)
               + Len(issues.moderate) + Len(issues.minor)
      points == Len(issues.critical) * 100 + Len(issues.serious) * 50
                + Len(issues.moderate) * 20 + Len(issues.minor) * 5
      maxPoints == total * 100
  IN IF total = 0 THEN 100 ELSE RoundedPercent(maxPoints, points)

\* _processResults(auditResult) at instant t
_processResults(auditResult, cfg, t) ==
  LET sorted == categorize(auditResult.issues, emptyIssues)
  IN IF sorted.threw THEN sorted
     ELSE LET issues == sorted.value
          IN Return(
               [url |-> auditResult.documentTitle,
                timestamp |-> t,
                wcagLevel |-> cfg.wcagLevel,
                wcagVersion |-> cfg.wcagVersion,
                summary |-> [total |-> Len(auditResult.issues),
                             critical |-> Len(issues.critical),
                             serious |-> Len(issues.serious),
                             moderate |-> Len(issues.moderate),
                             minor |-> Len(issues.minor)],
                issues |-> issues,
                status |-> _determineStatus(issues, cfg),
                compliance |-> _calculateCompliance(issues)])

\* the severities the scan engine is taken to report: the four known ones,
\* one unknown string and one name inherited from Object.prototype
EngineTypes == {"error", "warning", "notice", "info", "fatal", "constructor"}

Findings ==
  {[code |-> "image-alt", message |-> "Images must have alternate text",
    type |-> t, selector |-> "img"] : t \in EngineTypes}

RECURSIVE SeqsUpTo(_, _)
SeqsUpTo(S, n) ==
  IF n = 0 THEN {<<>>}
  ELSE LET shorter == SeqsUpTo(S, n - 1)
       IN shorter \cup {Append(s, x) : s \in shorter, x \in S}

\* what pa11y(url, options) resolves to
ScanOutputs(url) ==
  {[documentTitle |-> "Online Banking", pageUrl |-> url, issues |-> list] :
     list \in SeqsUpTo(Findings, MaxFindings)}

\* audit(url), once pa11y has settled: outcome is Throw("ScanError") when
\* pa11y rejected and Return(auditResult) when it resolved; the catch block
\* rethrows whatever was thrown
audit(outcome, cfg, t) ==
  IF outcome.threw THEN outcome
  ELSE _processResults(outcome.value, cfg, t)

(***************************************************************************)
(* complianceChecker.js                                                    *)
(***************************************************************************)
\* the template string of a count check.  mark is "tick" for the check mark
\* U+2713 and "cross" for the ballot X U+2717
ThresholdMessage(passed, label, count, threshold) ==
  [mark |-> IF passed THEN "tick" ELSE "cross",
   label |-> label,
   verb |-> IF passed THEN "within" ELSE "exceed",
   current |-> count,
   threshold |-> threshold]

_checkCriticalIssues(auditResults, cfg) ==
  LET count == auditResults.summary.critical
      passed == JsLE(count, cfg.maxCriticalIssues)
  IN [metric |-> "Critical Issues", current |-> count,
      threshold |-> cfg.maxCriticalIssues, passed |-> passed,
      message |-> ThresholdMessage(passed, "Critical issues", count,
                                   cfg.maxCriticalIssues)]

\* _checkSeriousIssues that passes only below the maximum
_checkSeriousIssues_Strict(auditResults, cfg) ==
  LET count == auditResults.summary.serious
      passed == ~cfg.maxSeriousIssues.nan /\ count < cfg.maxSeriousIssues.v
  IN [metric |-> "Serious Issues", current |-> count,
      threshold |-> cfg.maxSeriousIssues, passed |-> passed,
      message |-> ThresholdMessage(passed, "Serious issues", count,
                                   cfg.maxSeriousIssues)]

_checkSeriousIssues(auditResults, cfg) ==
  LET count == auditResults.summary.serious
      passed == JsLE(count, cfg.maxSeriousIssues)
  IN [metric |-> "Serious Issues", current |-> count,
      threshold |-> cfg.maxSeriousIssues, passed |-> passed,
      message |-> ThresholdMessage(passed, "Serious issues", count,
                                   cfg.maxSeriousIssues)]

_checkModerateIssues(auditResults, cfg) ==
  LET count == auditResults.summary.moderate
      passed == JsLE(count, cfg.maxModerateIssues)
  IN [metric |-> "Moderate Issues", current |-> count,
      threshold |-> cfg.maxModerateIssues, passed |-> passed,
      message |-> ThresholdMessage(passed, "Moderate issues", count,
                                   cfg.maxModerateIssues)]

\* _checkWCAGCompliance that tolerates as many critical issues as the
\* configured maximum
_checkWCAGCompliance_UsesThreshold(auditResults, cfg) ==
  LET passed == JsLE(auditResults.summary.critical, cfg.maxCriticalIssues)
  IN [metric |-> "WCAG 2.1 Level AA Compliance",
      currentLevel |-> cfg.wcagLevel, compliant |-> passed, passed |-> passed,
      message |-> [mark |-> IF passed THEN "tick" ELSE "cross",
                   label |-> "WCAG 2.1 Level",
                   level |-> cfg.wcagLevel,
                   verb |-> IF passed THEN "Compliant" ELSE "Non-Compliant",
                   critical |-> IF passed THEN 0
                                ELSE auditResults.summary.critical]]

_checkWCAGCompliance(auditResults, cfg) ==
  LET passed == auditResults.summary.critical = 0
  IN [metric |-> "WCAG 2.1 Level AA Compliance",
      currentLevel |-> cfg.wcagLevel, compliant |-> passed, passed |-> passed,
      message |-> [mark |-> IF passed THEN "tick" ELSE "cross",
                   label |-> "WCAG 2.1 Level",
                   level |-> cfg.wcagLevel,
                   verb |-> IF passed THEN "Compliant" ELSE "Non-Compliant",
                   critical |-> IF passed THEN 0
                                ELSE auditResults.summary.critical]]

\* _determineOverallPass(checks)
_determineOverallPass(checks, cfg) ==
  IF ~checks.criticalIssues.passed THEN FALSE
  ELSE IF cfg.failOnSerious /\ ~checks.seriousIssues.passed THEN FALSE
  ELSE TRUE

\* Object.values(checks) with the WCAG check ahead of the count checks
checkValues_WcagFirst(checks) ==
  <<checks.wcagCompliance, checks.criticalIssues, checks.seriousIssues,
    checks.moderateIssues, [number |-> checks.complianceScore]>>

\* Object.values(checks), in insertion order; the number complianceScore is
\* wrapped in a record so that the list is a list of records
checkValues(checks) ==
  <<checks.criticalIssues, checks.seriousIssues, checks.moderateIssues,
    checks.wcagCompliance, [number |-> checks.complianceScore]>>

\* _generateComplianceReport whose allChecksPassed asks for one passed check
_generateComplianceReport_AnyPassed(checks) ==
  LET checkResults == SelectSeq(checkValues(checks),
                                LAMBDA c : "message" \in DOMAIN c)
  IN [summary |-> [i \in 1..Len(checkResults) |-> checkResults[i].message],
      details |-> checkResults,
      allChecksPassed |-> \E i \in 1..Len(checkResults) : checkResults[i].passed]

\* _generateComplianceReport(checks)
_generateComplianceReport(checks) ==
  LET checkResults == SelectSeq(checkValues(checks),
                                LAMBDA c : "message" \in DOMAIN c)
  IN [summary |-> [i \in 1..Len(checkResults) |-> checkResults[i].message],
      details |-> checkResults,
      allChecksPassed |-> \A i \in 1..Len(checkResults) : checkResults[i].passed]

\* check(auditResults) at instant t
check(auditResults, cfg, t) ==
  LET checks == [criticalIssues |-> _checkCriticalIssues(auditResults, cfg),
                 seriousIssues |-> _checkSeriousIssues(auditResults, cfg),
                 moderateIssues |-> _checkModerateIssues(auditResults, cfg),
                 wcagCompliance |-> _checkWCAGCompliance(auditResults, cfg),
                 complianceScore |-> auditResults.compliance]
  IN [passed |-> _determineOverallPass(checks, cfg),
      checks |-> checks,
      timestamp |-> t,
      report |-> _generateComplianceReport(checks)]

\* _buildNotificationMessage(complianceResult, auditResults) at instant t
_buildNotificationMessage(result, auditResults, cfg, t) ==
  [color |-> IF result.passed THEN "#2ecc71" ELSE "#e74c3c",
   text |-> IF result.passed THEN "All compliance checks passed!"
            ELSE "Compliance check failed - Deployment blocked",
   status |-> auditResults.status,
   complianceScore |-> auditResults.compliance,
   critical |-> auditResults.summary.critical,
   serious |-> auditResults.summary.serious,
   total |-> auditResults.summary.total,
   checksSummary |-> result.report.summary,
   ts |-> t]

(***************************************************************************)
(* reportGenerator.js                                                      *)
(***************************************************************************)
\* the calendar day of instant t: toISOString() cut at the 'T'
Day(t) == t \div TicksPerDay
Days == 0..Day(MaxTime)

\* _getCertificationLevel that asks for more than 95 for Gold
_getCertificationLevel_StrictGold(auditResults) ==
  IF auditResults.compliance > 95 THEN "Gold - Excellent Accessibility"
  ELSE IF auditResults.compliance >= 85 THEN "Silver - Good Accessibility"
  ELSE IF auditResults.compliance >= 70 THEN "Bronze - Fair Accessibility"
  ELSE "Non-Compliant"

\* _getCertificationLevel(auditResults)
_getCertificationLevel(auditResults) ==
  IF auditResults.compliance >= 95 THEN "Gold - Excellent Accessibility"
  ELSE IF auditResults.compliance >= 85 THEN "Silver - Good Accessibility"
  ELSE IF auditResults.compliance >= 70 THEN "Bronze - Fair Accessibility"
  ELSE "Non-Compliant"

\* _buildReport(auditResults) at instant t (recommendations are left out)
_buildReport(auditResults, cfg, t) ==
  [metadata |-> [generatedAt |-> t],
   configuration |-> [wcagVersion |-> cfg.wcagVersion,
                      wcagLevel |-> cfg.wcagLevel,
                      maxCriticalIssues |-> cfg.maxCriticalIssues,
                      maxSeriousIssues |-> cfg.maxSeriousIssues,
                      maxModerateIssues |-> cfg.maxModerateIssues],
   auditResults |-> [url |-> auditResults.url,
                     timestamp |-> auditResults.timestamp,
                     status |-> auditResults.status,
                     complianceScore |-> auditResults.compliance],
   summary |-> [total_issues |-> auditResults.summary.total,
                critical |-> auditResults.summary.critical,
                serious |-> auditResults.summary.serious,
                moderate |-> auditResults.summary.moderate,
                minor |-> auditResults.summary.minor],
   issues |-> auditResults.issues,
   legal_compliance |->
     [wcag_2_1_level_aa |-> auditResults.summary.critical = 0,
      ada_compliant |-> auditResults.summary.critical = 0,
      section_508_compliant |-> auditResults.summary.critical = 0
                                /\ auditResults.summary.serious <= 2],
   certification |-> [passed |-> auditResults.status = "PASSED",
                      certificationLevel |-> _getCertificationLevel(auditResults)]]

\* _buildHTMLReport(auditResults): the data the page shows
_buildHTMLReport(auditResults, cfg) ==
  [status |-> auditResults.status,
   compliance |-> auditResults.compliance,
   summary |-> auditResults.summary,
   issues |-> auditResults.issues]

\* JSON.stringify followed by JSON.parse of a threshold: NaN is written as
\* null; integers, strings, booleans, arrays and objects come back unchanged
jsonNumber(x) == IF x.nan THEN null ELSE x

\* what JSON.parse reads back from the file written for a report
jsonRoundTrip(report) ==
  [report EXCEPT
     !.configuration.maxCriticalIssues = jsonNumber(@),
     !.configuration.maxSeriousIssues = jsonNumber(@),
     !.configuration.maxModerateIssues = jsonNumber(@)]

NoFile == [exists |-> FALSE]
File(content) == [exists |-> TRUE, content |-> content]

\* generateReport that leaves a report of the same date in place
generateReport_KeepsExisting(dir, files, auditResults, cfg, t, fs) ==
  IF fs = "mkdir" /\ ~dir THEN [threw |-> TRUE, dir |-> dir, files |-> files]
  ELSE IF fs = "write" THEN [threw |-> TRUE, dir |-> TRUE, files |-> files]
  ELSE [threw |-> FALSE, dir |-> TRUE,
        files |-> IF files[Day(t)].exists THEN files
                  ELSE [files EXCEPT
                          ![Day(t)] = File(_buildReport(auditResults, cfg, t))],
        filepath |-> Day(t)]

\* ensureOutputDir() followed by the body of generateReport(auditResults) at
\* instant t, on the disk <<dir, files>>.  fs is "ok", "mkdir" (mkdirSync
\* fails) or "write" (writeFileSync fails); the catch block rethrows
generateReport(dir, files, auditResults, cfg, t, fs) ==
  IF fs = "mkdir" /\ ~dir THEN [threw |-> TRUE, dir |-> dir, files |-> files]
  ELSE IF fs = "write" THEN [threw |-> TRUE, dir |-> TRUE, files |-> files]
  ELSE [threw |-> FALSE, dir |-> TRUE,
        files |-> [files EXCEPT
                     ![Day(t)] = File(_buildReport(auditResults, cfg, t))],
        filepath |-> Day(t)]

\* generateHTMLReport(auditResults) at instant t
generateHTMLReport(files, auditResults, cfg, t, fs) ==
  IF fs = "write" THEN [threw |-> TRUE, files |-> files]
  ELSE [threw |-> FALSE,
        files |-> [files EXCEPT
                     ![Day(t)] = File(_buildHTMLReport(auditResults, cfg))],
        filepath |-> Day(t)]

(***************************************************************************)
(* index.js: main()                                                        *)
(***************************************************************************)
\* MainCatch with the exit code of a successful run
MainCatch_ExitZero(kind) ==
  /\ error' = kind
  /\ exitCode' = 0
  /\ pc' = "exit"

\* the catch block of main(): print the error and process.exit(1)
MainCatch(kind) ==
  /\ error' = kind
  /\ exitCode' = 1
  /\ pc' = "exit"

\* validateConfig()
MainValidate ==
  /\ pc = "start"
  /\ IF validateConfig(config).threw
     THEN MainCatch(validateConfig(config).kind)
     ELSE pc' = "audit" /\ UNCHANGED <<error, exitCode>>
  /\ UNCHANGED <<config, now, scanOutcome, results, complianceResult,
                 webhookPosts, checkVars, diskVars, harnessVars, serverVars>>

\* const auditResults = await auditor.audit(config.auditUrl)
MainAudit ==
  /\ pc = "audit"
  /\ \E outcome \in {Throw("ScanError")}
                     \cup {Return(o) : o \in ScanOutputs(config.auditUrl)} :
       /\ scanOutcome' = outcome
       /\ LET r == audit(outcome, config, now)
          IN IF r.threw
             THEN MainCatch(r.kind) /\ UNCHANGED results
             ELSE /\ results' = r.value
                  /\ pc' = "check"
                  /\ UNCHANGED <<error, exitCode>>
  /\ UNCHANGED <<config, now, complianceResult, webhookPosts, checkVars,
                 diskVars, harnessVars, serverVars>>

\* MainCheck that goes on to the notification without writing the reports
MainCheck_SkipsReports ==
  /\ pc = "check"
  /\ complianceResult' = check(results, config, now)
  /\ pc' = "notify"
  /\ UNCHANGED <<config, now, scanOutcome, results, error, exitCode,
                 webhookPosts, checkVars, diskVars, harnessVars, serverVars>>

\* const complianceResult = checker.check(auditResults)
MainCheck ==
  /\ pc = "check"
  /\ complianceResult' = check(results, config, now)
  /\ pc' = "json"
  /\ UNCHANGED <<config, now, scanOutcome, results, error, exitCode,
                 webhookPosts, checkVars, diskVars, harnessVars, serverVars>>

\* new ReportGenerator(config); await reportGen.generateReport(auditResults)
MainJsonReport ==
  /\ pc = "json"
  /\ \E fs \in {"ok", "mkdir", "write"} :
       LET r == generateReport(reportsDir, jsonFiles, results, config, now, fs)
       IN /\ reportsDir' = r.dir
          /\ jsonFiles' = r.files
          /\ IF r.threw THEN MainCatch("RenderError")
             ELSE pc' = "html" /\ UNCHANGED <<error, exitCode>>
  /\ UNCHANGED <<config, now, scanOutcome, results, complianceResult,
                 webhookPosts, checkVars, htmlFiles, harnessVars, serverVars>>

\* await reportGen.generateHTMLReport(auditResults)
MainHtmlReport ==
  /\ pc = "html"
  /\ \E fs \in {"ok", "write"} :
       LET r == generateHTMLReport(htmlFiles, results, config, now, fs)
       IN /\ htmlFiles' = r.files
          /\ IF r.threw THEN MainCatch("RenderError")
             ELSE pc' = "notify" /\ UNCHANGED <<error, exitCode>>
  /\ UNCHANGED <<config, now, scanOutcome, results, complianceResult,
                 webhookPosts, checkVars, reportsDir, jsonFiles, harnessVars, serverVars>>

\* notifyCI(complianceResult, auditResults) at instant t: the posts the
\* endpoint holds afterwards.  A failed POST is caught and logged
notifyCI(posts, result, auditResults, cfg, t, delivered) ==
  IF cfg.notificationWebhook = "" THEN posts
  ELSE IF delivered
       THEN Append(posts, _buildNotificationMessage(result, auditResults, cfg, t))
  ELSE posts

\* MainNotify in which a failed POST reaches the catch block of main()
MainNotify_Propagates ==
  /\ pc = "notify"
  /\ IF config.notificationWebhook # ""
     THEN \E delivered \in BOOLEAN :
            /\ webhookPosts' = notifyCI(webhookPosts, complianceResult, results,
                                        config, now, delivered)
            /\ IF delivered THEN pc' = "decide" /\ UNCHANGED <<error, exitCode>>
               ELSE MainCatch("NotificationError")
     ELSE /\ UNCHANGED webhookPosts
          /\ pc' = "decide"
          /\ UNCHANGED <<error, exitCode>>
  /\ UNCHANGED <<config, now, scanOutcome, results, complianceResult,
                 checkVars, diskVars, harnessVars, serverVars>>

\* if (config.notificationWebhook) await checker.notifyCI(...)
MainNotify ==
  /\ pc = "notify"
  /\ IF config.notificationWebhook # ""
     THEN \E delivered \in BOOLEAN :
            webhookPosts' = notifyCI(webhookPosts, complianceResult, results,
                                     config, now, delivered)
     ELSE UNCHANGED webhookPosts
  /\ pc' = "decide"
  /\ UNCHANGED <<config, now, scanOutcome, results, complianceResult, error,
                 exitCode, checkVars, diskVars, harnessVars, serverVars>>

\* process.exit(0) when complianceResult.passed, process.exit(1) otherwise
MainExit ==
  /\ pc = "decide"
  /\ exitCode' = IF complianceResult.passed THEN 0 ELSE 1
  /\ pc' = "exit"
  /\ UNCHANGED <<config, now, scanOutcome, results, complianceResult, error,
                 webhookPosts, checkVars, diskVars, harnessVars, serverVars>>

(***************************************************************************)
(* The compliance-check script                                             *)
(***************************************************************************)
\* files filtered by name, sorted and reversed: the days that have a JSON
\* report, latest first; files[0] is the greatest day
reportDays(files) == {d \in DOMAIN files : files[d].exists}
\* latestDay without the reverse(): files[0] is the least day
latestDay_Earliest(files) == CHOOSE d \in reportDays(files) :
                               \A e \in reportDays(files) : d <= e

latestDay(files) == CHOOSE d \in reportDays(files) :
                      \A e \in reportDays(files) : e <= d

\* the auditResults object rebuilt from a parsed report
reconstruct(report) ==
  [url |-> report.auditResults.url,
   status |-> report.auditResults.status,
   compliance |-> report.auditResults.complianceScore,
   summary |-> [total |-> report.summary.total_issues,
                critical |-> report.summary.critical,
                serious |-> report.summary.serious,
                moderate |-> report.summary.moderate,
                minor |-> report.summary.minor],
   issues |-> report.issues]

\* checkCompliance() on the disk <<dir, files>> at instant t; readable is
\* false when readFileSync or JSON.parse throws
checkCompliance(dir, files, cfg, t, readable) ==
  IF ~dir THEN [exit |-> 1, error |-> "none", result |-> null]
  ELSE IF reportDays(files) = {}
       THEN [exit |-> 1, error |-> "none", result |-> null]
  ELSE IF ~readable THEN [exit |-> 1, error |-> "ReadError", result |-> null]
  ELSE LET report == jsonRoundTrip(files[latestDay(files)].content)
           result == check(reconstruct(report), cfg, t)
       IN [exit |-> IF result.passed THEN 0 ELSE 1, error |-> "none",
           result |-> result]

\* One run of the script.  It is a step of the CI pipeline of its own, run
\* before the audit CLI has started or after it has exited
CheckCompliance ==
  /\ checkPc = "start"
  /\ pc \in {"start", "exit"}
  /\ \E readable \in BOOLEAN :
       LET r == checkCompliance(reportsDir, jsonFiles, config, now, readable)
       IN /\ checkExit' = r.exit
          /\ checkError' = r.error
          /\ checkResult' = r.result
  /\ checkPc' = "exit"
  /\ UNCHANGED <<config, now, cliVars, diskVars, harnessVars, serverVars>>

\* time passes
Tick ==
  /\ now < MaxTime
  /\ now' = now + 1
  /\ UNCHANGED <<config, cliVars, checkVars, diskVars, harnessVars, serverVars>>

(***************************************************************************)
(* server.js                                                               *)
(***************************************************************************)
\* a run request that has not arrived, and one that has been answered
idleRun == [pc |-> "idle"]
doneRun == [pc |-> "done"]

\* A path is the sequence of its segments below the file system root.  A
\* segment is a name; the report of day d is the name compliance-report-<d>
Seg(name) == [name |-> name, day |-> -1]
ReportSeg(d, ext) == [name |-> ext, day |-> d]

\* path.join(...): the segments are concatenated and normalised; "." is
\* dropped and ".." removes the segment before it
RECURSIVE normalize(_, _)
normalize(segments, acc) ==
  IF segments = <<>> THEN acc
  ELSE IF Head(segments) = Seg(".") THEN normalize(Tail(segments), acc)
  ELSE IF Head(segments) = Seg("..")
       THEN normalize(Tail(segments),
                      IF acc = <<>> THEN acc ELSE SubSeq(acc, 1, Len(acc) - 1))
  ELSE normalize(Tail(segments), Append(acc, Head(segments)))

pathJoin(segments) == normalize(segments, <<>>)

\* __dirname of server.js and config.reportOutputDir ('./reports')
dirname == <<Seg("app"), Seg("src")>>
reportOutputDir == <<Seg("."), Seg("reports")>>
reportsPath == pathJoin(dirname \o <<Seg("..")>> \o reportOutputDir)

\* the files and directories of the deployment that are not reports
staticFiles ==
  {<<Seg("app"), Seg(".env")>>, <<Seg("app"), Seg("package.json")>>,
   <<Seg("app"), Seg("src"), Seg("server.js")>>}
staticDirs == {<<>>, <<Seg("app")>>, <<Seg("app"), Seg("src")>>}

\* the regular files and the directories on the disk <<dir, json, html>>
regularFiles(dir, json, html) ==
  staticFiles
  \cup {Append(reportsPath, ReportSeg(d, "json")) : d \in reportDays(json)}
  \cup {Append(reportsPath, ReportSeg(d, "html")) : d \in reportDays(html)}
directories(dir) == staticDirs \cup (IF dir THEN {reportsPath} ELSE {})

\* app.get('/reports/:filename'): the response to a request whose decoded
\* filename parameter is the segment list name.  res.download of a
\* directory fails and ends in the error handler
downloadReport(name, dir, json, html) ==
  LET filepath == pathJoin(dirname \o <<Seg("..")>> \o reportOutputDir \o name)
  IN IF filepath \notin regularFiles(dir, json, html) \cup directories(dir)
     THEN [status |-> 404, sent |-> FALSE, filepath |-> filepath]
     ELSE IF filepath \in directories(dir)
          THEN [status |-> 500, sent |-> FALSE, filepath |-> filepath]
     ELSE [status |-> 200, sent |-> TRUE, filepath |-> filepath]

\* the decoded filename parameters that are requested: a report that may
\* exist, a name that does not exist, and names with ".." segments (sent
\* as %2F-separated text) that lead to the deployment's root, to its .env
\* file and to a path above the file system root
RequestNames ==
  {<<ReportSeg(0, "json")>>,
   <<Seg("missing.json")>>,
   <<Seg("..")>>,
   <<Seg(".."), Seg(".env")>>,
   <<Seg(".."), Seg(".."), Seg(".."), Seg("app"), Seg("reports"),
     ReportSeg(0, "json")>>}

\* GET /reports/:filename
DownloadReport ==
  /\ \E name \in RequestNames :
       download' = downloadReport(name, reportsDir, jsonFiles, htmlFiles)
  /\ UNCHANGED <<config, now, cliVars, checkVars, diskVars, harnessVars,
                 latestAudit, auditHistory, runs, runResponse, queryResponse>>

\* POST /api/audit/run up to the first await: the body's url is checked and
\* auditor.audit(url) is started
RunStart(r) ==
  /\ runs[r].pc = "idle"
  /\ \E url \in {"", "https://bank.example/login"} :
       IF url = ""
       THEN /\ runs' = [runs EXCEPT ![r] = doneRun]
            /\ runResponse' = [status |-> 400,
                               body |-> [error |-> "URL is required"]]
       ELSE /\ runs' = [runs EXCEPT ![r] = [pc |-> "auditing", url |-> url]]
            /\ UNCHANGED runResponse
  /\ UNCHANGED <<config, now, cliVars, checkVars, diskVars, harnessVars,
                 latestAudit, auditHistory, download, queryResponse>>

\* what pa11y resolves to in the service: no finding, or one finding of a
\* known severity, or one whose severity is a name Object.prototype has
ServerScanOutputs(url) ==
  {[documentTitle |-> "Online Banking", pageUrl |-> url, issues |-> list] :
     list \in {<<>>} \cup {<<f>> : f \in {g \in Findings :
                  g.type \in {"error", "constructor"}}}}

\* RunCatch that answers with a success status
RunCatch_Success(r, kind) ==
  /\ runs' = [runs EXCEPT ![r] = doneRun]
  /\ runResponse' = [status |-> 200, body |-> [error |-> kind]]

\* the catch block of the handler: res.status(500).json({ error: message })
RunCatch(r, kind) ==
  /\ runs' = [runs EXCEPT ![r] = doneRun]
  /\ runResponse' = [status |-> 500, body |-> [error |-> kind]]

\* the handler from the settling of pa11y to the second await: audit()
\* returns or throws, check(), new ReportGenerator, generateReport()
RunAudited(r) ==
  /\ runs[r].pc = "auditing"
  /\ \E outcome \in {Throw("ScanError")}
                     \cup {Return(o) : o \in ServerScanOutputs(runs[r].url)},
        fs \in {"ok", "write"} :
       LET audited == audit(outcome, config, now)
           report == generateReport(reportsDir, jsonFiles, audited.value,
                                    config, now, fs)
       IN IF audited.threw
          THEN /\ RunCatch(r, audited.kind)
               /\ UNCHANGED <<reportsDir, jsonFiles>>
          ELSE /\ reportsDir' = report.dir
               /\ jsonFiles' = report.files
               /\ IF report.threw
                  THEN RunCatch(r, "RenderError")
                  ELSE /\ runs' = [runs EXCEPT ![r] =
                                    [pc |-> "reporting", url |-> runs[r].url,
                                     auditResults |-> audited.value,
                                     complianceResult |->
                                       check(audited.value, config, now),
                                     reportPath |-> report.filepath]]
                       /\ UNCHANGED runResponse
  /\ UNCHANGED <<config, now, cliVars, checkVars, htmlFiles, harnessVars,
                 latestAudit, auditHistory, download, queryResponse>>

\* auditRecord whose reportPath is built from the date of the record
\* instead of the path generateReport returned
auditRecord_PathOfRecordDate(run, t) ==
  [id |-> t,
   timestamp |-> t,
   url |-> run.url,
   status |-> run.auditResults.status,
   complianceScore |-> run.auditResults.compliance,
   summary |-> run.auditResults.summary,
   compliancePassed |-> run.complianceResult.passed,
   reportPath |-> Day(t)]

\* const auditRecord = { id: Date.now().toString(), ... } at instant t
auditRecord(run, t) ==
  [id |-> t,
   timestamp |-> t,
   url |-> run.url,
   status |-> run.auditResults.status,
   complianceScore |-> run.auditResults.compliance,
   summary |-> run.auditResults.summary,
   compliancePassed |-> run.complianceResult.passed,
   reportPath |-> run.reportPath]

\* RunStored that keeps nothing but the new record in the history
RunStored_KeepsLatestOnly(r) ==
  /\ runs[r].pc = "reporting"
  /\ latestAudit' = auditRecord(runs[r], now)
  /\ auditHistory' = <<auditRecord(runs[r], now)>>
  /\ runs' = [runs EXCEPT ![r] = doneRun]
  /\ runResponse' = [status |-> 200,
                     body |-> [success |-> TRUE,
                               audit |-> auditRecord(runs[r], now),
                               compliance |-> runs[r].complianceResult,
                               auditDetails |-> runs[r].auditResults]]
  /\ UNCHANGED <<config, now, cliVars, checkVars, diskVars, harnessVars,
                 download, queryResponse>>

\* RunStored that appends the record and leaves latestAudit as it was
RunStored_StaleLatest(r) ==
  /\ runs[r].pc = "reporting"
  /\ UNCHANGED latestAudit
  /\ auditHistory' = Append(auditHistory, auditRecord(runs[r], now))
  /\ runs' = [runs EXCEPT ![r] = doneRun]
  /\ runResponse' = [status |-> 200,
                     body |-> [success |-> TRUE,
                               audit |-> auditRecord(runs[r], now),
                               compliance |-> runs[r].complianceResult,
                               auditDetails |-> runs[r].auditResults]]
  /\ UNCHANGED <<config, now, cliVars, checkVars, diskVars, harnessVars,
                 download, queryResponse>>

\* the handler after the second await: the record is created and stored and
\* the response is sent
RunStored(r) ==
  /\ runs[r].pc = "reporting"
  /\ latestAudit' = auditRecord(runs[r], now)
  /\ auditHistory' = Append(auditHistory, auditRecord(runs[r], now))
  /\ runs' = [runs EXCEPT ![r] = doneRun]
  /\ runResponse' = [status |-> 200,
                     body |-> [success |-> TRUE,
                               audit |-> auditRecord(runs[r], now),
                               compliance |-> runs[r].complianceResult,
                               auditDetails |-> runs[r].auditResults]]
  /\ UNCHANGED <<config, now, cliVars, checkVars, diskVars, harnessVars,
                 download, queryResponse>>

\* the number of records GET /api/audit/history returns at most
HistoryLimit == 20

\* app.get('/api/audit/latest')
getLatest(latest) ==
  IF latest = null
  THEN [route |-> "latest", status |-> 404,
        body |-> [error |-> "No audit results available"]]
  ELSE [route |-> "latest", status |-> 200, body |-> latest]

\* getHistory that returns the oldest records: auditHistory.slice(0, 20)
getHistory_Oldest(history) ==
  [route |-> "history", status |-> 200,
   body |-> IF Len(history) <= HistoryLimit THEN history
            ELSE SubSeq(history, 1, HistoryLimit)]

\* app.get('/api/audit/history'): auditHistory.slice(-20)
getHistory(history) ==
  [route |-> "history", status |-> 200,
   body |-> IF Len(history) <= HistoryLimit THEN history
            ELSE SubSeq(history, Len(history) - HistoryLimit + 1, Len(history))]

\* app.get('/api/audit/:id'): auditHistory.find((a) => a.id === id), the
\* first record with that id
getById(history, id) ==
  LET hits == {i \in 1..Len(history) : history[i].id = id}
  IN IF hits = {}
     THEN [route |-> "id", id |-> id, status |-> 404,
           body |-> [error |-> "Audit not found"]]
     ELSE [route |-> "id", id |-> id, status |-> 200,
           body |-> history[CHOOSE i \in hits : \A j \in hits : i <= j]]

GetLatest ==
  /\ queryResponse' = getLatest(latestAudit)
  /\ UNCHANGED <<config, now, cliVars, checkVars, diskVars, harnessVars,
                 latestAudit, auditHistory, runs, runResponse, download>>

GetHistory ==
  /\ queryResponse' = getHistory(auditHistory)
  /\ UNCHANGED <<config, now, cliVars, checkVars, diskVars, harnessVars,
                 latestAudit, auditHistory, runs, runResponse, download>>

GetById(id) ==
  /\ queryResponse' = getById(auditHistory, id)
  /\ UNCHANGED <<config, now, cliVars, checkVars, diskVars, harnessVars,
                 latestAudit, auditHistory, runs, runResponse, download>>

\* the report directory before the first report is written
InitDisk ==
  /\ reportsDir = FALSE
  /\ jsonFiles = [d \in Days |-> NoFile]
  /\ htmlFiles = [d \in Days |-> NoFile]

\* the clock and the in-memory store of the service at process start
InitStore ==
  /\ now = 0
  /\ latestAudit = null
  /\ auditHistory = <<>>

\* the state of a process that has just started, and of the test harness
InitProcess ==
  /\ pc = "start"
  /\ scanOutcome = null
  /\ results = null
  /\ complianceResult = null
  /\ error = "none"
  /\ exitCode = -1
  /\ webhookPosts = <<>>
  /\ checkPc = "start"
  /\ checkResult = null
  /\ checkError = "none"
  /\ checkExit = -1
  /\ tIssues = emptyIssues
  /\ tScore = _calculateCompliance(emptyIssues)
  /\ tStatus = _determineStatus(emptyIssues, config)
  /\ tCode = ""
  /\ tLevel = _getWCAGLevel("")
  /\ tCriteria = _getWCAGCriteria("")
  /\ runs = [r \in 1..MaxRuns |-> idleRun]
  /\ runResponse = null
  /\ download = null
  /\ queryResponse = null

\* the state of everything but the configuration when a process starts
InitRest ==
  /\ InitStore
  /\ InitProcess
  /\ InitDisk

Init ==
  /\ config \in {LoadConfig(env) : env \in Environments}
  /\ InitRest

Next ==
  \/ MainValidate
  \/ MainAudit
  \/ MainCheck
  \/ MainJsonReport
  \/ MainHtmlReport
  \/ MainNotify
  \/ MainExit
  \/ CheckCompliance
  \/ Tick

Spec == Init /\ [][Next]_vars

(***************************************************************************)
(* The scoring functions under the unit tests' harness                     *)
(***************************************************************************)
\* the issue objects the tests put into the buckets: { message: 'test' }
testIssue == [message |-> "test"]

ScoreBound(bucket) ==
  CASE bucket = "critical" -> ScoreMaxCritical
    [] bucket = "serious" -> ScoreMaxSerious
    [] bucket = "moderate" -> ScoreMaxModerate
    [] bucket = "minor" -> ScoreMaxMinor

\* one more test issue in a bucket, then auditor._calculateCompliance(issues)
\* and auditor._determineStatus(issues)
TestScore(bucket) ==
  /\ Len(tIssues[bucket]) < ScoreBound(bucket)
  /\ tIssues' = [tIssues EXCEPT ![bucket] = Append(@, testIssue)]
  /\ tScore' = _calculateCompliance(tIssues')
  /\ tStatus' = _determineStatus(tIssues', config)
  /\ UNCHANGED <<config, now, cliVars, checkVars, diskVars, serverVars,
                 tCode, tLevel, tCriteria>>

\* the rule codes the lookups are called with: the twelve codes of the
\* tables, the tests' 'unknown-code', the empty code, and a code that is the
\* name of a member every object inherits
LookupCodes == DOMAIN levelMap \cup {"unknown-code", "", "constructor"}

\* auditor._getWCAGLevel(code) and auditor._getWCAGCriteria(code)
TestLookup(code) ==
  /\ code # tCode
  /\ tCode' = code
  /\ tLevel' = _getWCAGLevel(code)
  /\ tCriteria' = _getWCAGCriteria(code)
  /\ UNCHANGED <<config, now, cliVars, checkVars, diskVars, serverVars,
                 tIssues, tScore, tStatus>>

InitScore ==
  /\ config = testConfig
  /\ InitRest

NextScore ==
  \/ \E bucket \in Buckets : TestScore(bucket)
  \/ \E code \in LookupCodes : TestLookup(code)

SpecScore == InitScore /\ [][NextScore]_vars

(***************************************************************************)
(* The HTTP service                                                        *)
(***************************************************************************)
\* the environments the service is started in
ServerEnvironments ==
  {Environment(<<>>, <<>>, <<>>, "true", "",
               [STRICT_MODE |-> strict, API_KEY |-> ""]) :
     strict \in {"", "true"}}

InitServer ==
  /\ config \in {LoadConfig(env) : env \in ServerEnvironments}
  /\ InitRest

NextServer ==
  \/ \E r \in 1..MaxRuns : RunStart(r)
  \/ \E r \in 1..MaxRuns : RunAudited(r)
  \/ \E r \in 1..MaxRuns : RunStored(r)
  \/ DownloadReport
  \/ Tick

SpecServer == InitServer /\ [][NextServer]_vars

(***************************************************************************)
(* The audit CLI run in a report directory that an earlier run has used    *)
(***************************************************************************)
\* the environments of the pipeline: the defaults, maxima of one critical
\* and no serious issue with FAIL_ON_SERIOUS, and a critical maximum that is
\* not a number
PriorEnvironments ==
  {Environment(<<>>, <<>>, <<>>, "", "", [STRICT_MODE |-> "", API_KEY |-> ""]),
   Environment(<<"1">>, <<"0">>, <<>>, "true", "",
               [STRICT_MODE |-> "", API_KEY |-> ""]),
   Environment(<<"a", "b", "c">>, <<>>, <<>>, "", "",
               [STRICT_MODE |-> "", API_KEY |-> ""])}

\* the AuditResult of the earlier run, made at instant 0: no finding, or one
\* finding of type error
PriorAudits(cfg) ==
  {audit(Return(o), cfg, 0).value :
     o \in {s \in ScanOutputs(cfg.auditUrl) :
              /\ Len(s.issues) <= 1
              /\ \A i \in 1..Len(s.issues) : s.issues[i].type = "error"}}

\* the earlier run has written its JSON and its HTML report
InitPrior ==
  /\ config \in {LoadConfig(env) : env \in PriorEnvironments}
  /\ InitStore
  /\ InitProcess
  /\ \E p \in PriorAudits(config) :
       /\ reportsDir = TRUE
       /\ jsonFiles = [d \in Days |->
                        IF d = Day(0) THEN File(_buildReport(p, config, 0))
                        ELSE NoFile]
       /\ htmlFiles = [d \in Days |->
                        IF d = Day(0) THEN File(_buildHTMLReport(p, config))
                        ELSE NoFile]

SpecPrior == InitPrior /\ [][Next]_vars

(***************************************************************************)
(* The HTTP service after it has run audits, answering queries             *)
(***************************************************************************)
\* the record the i-th successful run stored at instant i; every k-th run
\* audited a page with one finding of type error, the others a clean page
SeedRecord(i, k, cfg) ==
  LET url == "https://bank.example/login"
      scan == CHOOSE o \in ServerScanOutputs(url) :
                IF i % k = 0
                THEN Len(o.issues) = 1 /\ o.issues[1].type = "error"
                ELSE o.issues = <<>>
      audited == audit(Return(scan), cfg, i).value
  IN auditRecord([url |-> url, auditResults |-> audited,
                  complianceResult |-> check(audited, cfg, i),
                  reportPath |-> Day(i)], i)

\* the service has stored the records of n runs, one run per instant
InitHistory ==
  /\ config \in {LoadConfig(env) : env \in ServerEnvironments}
  /\ InitProcess
  /\ InitDisk
  /\ \E n \in 0..MaxHistory, k \in {2, 3} :
       /\ now = n
       /\ auditHistory = [i \in 1..n |-> SeedRecord(i, k, config)]
       /\ latestAudit = IF n = 0 THEN null ELSE SeedRecord(n, k, config)

\* the ids that are asked for: those of the stored records and two more
RequestIds == 0..(MaxHistory + 1)

NextHistory ==
  \/ GetLatest
  \/ GetHistory
  \/ \E id \in RequestIds : GetById(id)

SpecHistory == InitHistory /\ [][NextHistory]_vars

(***************************************************************************)
(* Properties                                                              *)
(***************************************************************************)
\* count > threshold as the specification reads it: false for a threshold
\* that is not a number
Exceeds(count, threshold) ==
  IF threshold.nan THEN FALSE ELSE count > threshold.v

\* C1: a CLI run (the audit CLI, the compliance-check script) exits with
\* code 0 exactly when the Threshold Checker's passed is true and no step
\* threw, and with code 1 in every other case.
C1_ExitCode ==
  /\ pc = "exit" =>
       /\ exitCode \in {0, 1}
       /\ exitCode = 0 <=> (/\ error = "none"
                            /\ complianceResult # null
                            /\ complianceResult.passed)
  /\ checkPc = "exit" =>
       /\ checkExit \in {0, 1}
       /\ checkExit = 0 <=> (/\ checkError = "none"
                             /\ checkResult # null
                             /\ checkResult.passed)

\* both CLIs have exited with code 0 after an audit that found something
C1_Witness ==
  /\ pc = "exit" /\ exitCode = 0
  /\ results # null /\ results.summary.total > 0
  /\ checkPc = "exit" /\ checkExit = 0

\* C2: check().passed is false if summary.critical > maxCriticalIssues, else
\* false if failOnSerious and summary.serious > maxSeriousIssues, else true;
\* the moderate count and the wcagCompliance check never change it.
C2_OverallPass ==
  complianceResult # null =>
    complianceResult.passed =
      (IF Exceeds(results.summary.critical, config.maxCriticalIssues)
       THEN FALSE
       ELSE IF config.failOnSerious
               /\ Exceeds(results.summary.serious, config.maxSeriousIssues)
            THEN FALSE
       ELSE TRUE)

\* C3: the AuditResult's status is PASSED exactly when check().passed is
\* true for that AuditResult under the same configuration.
C3_SameDecision ==
  complianceResult # null =>
    (results.status = "PASSED" <=> complianceResult.passed)

\* whether a path lies inside the report directory
InsideReports(path) ==
  /\ Len(path) > Len(reportsPath)
  /\ SubSeq(path, 1, Len(reportsPath)) = reportsPath

\* C4: the file served for a report download request lies inside the
\* configured report directory; a name that resolves outside it is
\* rejected and no file is sent.
C4_DownloadInsideReports ==
  (download # null /\ download.sent) => InsideReports(download.filepath)

\* the bucket of an engine severity, as the specification states it
ClaimedBucket(type) ==
  CASE type = "error" -> "critical"
    [] type = "warning" -> "serious"
    [] type = "notice" -> "moderate"
    [] OTHER -> "minor"

\* the engine severities of a list of findings or issues, in order
TypesOf(list) == [i \in 1..Len(list) |-> list[i].type]

\* C5: for every finding list and every engine severity, classification
\* never throws and puts each finding into exactly the bucket of its
\* severity (unknown severities into minor), dropping none.
C5_ClassificationTotal ==
  (scanOutcome # null /\ ~scanOutcome.threw) =>
    /\ error # "TypeError"
    /\ results # null
    /\ \A b \in Buckets :
         TypesOf(results.issues[b]) =
           TypesOf(SelectSeq(scanOutcome.value.issues,
                             LAMBDA f : ClaimedBucket(f.type) = b))

\* C6: in every AuditResult summary.total is the sum of the four counts and
\* each count is the length of its bucket.
C6_CountConservation ==
  results # null =>
    /\ results.summary.total =
         results.summary.critical + results.summary.serious
         + results.summary.moderate + results.summary.minor
    /\ \A b \in Buckets : results.summary[b] = Len(results.issues[b])

\* an AuditResult with an unknown severity filed under minor next to
\* another finding
C6_Witness ==
  /\ results # null
  /\ results.summary.total >= 2
  /\ \E i \in 1..Len(results.issues.minor) :
       results.issues.minor[i].type = "fatal"

\* the counts of the issue set under test
HarnessTotal ==
  Len(tIssues.critical) + Len(tIssues.serious) + Len(tIssues.moderate)
  + Len(tIssues.minor)
HarnessPoints ==
  100 * Len(tIssues.critical) + 50 * Len(tIssues.serious)
  + 20 * Len(tIssues.moderate) + 5 * Len(tIssues.minor)

\* C7: the compliance score is 100 when there is no issue and otherwise
\* ((maxPoints - points) / maxPoints) * 100 rounded to the nearest integer,
\* a half rounding up: the integer c with c - 1/2 <= value < c + 1/2.
C7_ComplianceFormula ==
  IF HarnessTotal = 0 THEN tScore = 100
  ELSE LET maxPoints == 100 * HarnessTotal
           twiceValue == 200 * (maxPoints - HarnessPoints)
       IN /\ (2 * tScore - 1) * maxPoints <= twiceValue
          /\ twiceValue < (2 * tScore + 1) * maxPoints

\* C8: the compliance score is an integer between 0 and 100, and it is 100
\* if and only if there is no issue.
C8_ScoreBounds ==
  /\ tScore \in 0..100
  /\ tScore = 100 <=> HarnessTotal = 0

\* issue sets that score 95 (only minor issues) are scored
C8_Witness == HarnessTotal > 1 /\ tScore = 95

\* the issue set under test with one more issue in a bucket
Plus(bucket) == [tIssues EXCEPT ![bucket] = Append(@, testIssue)]

\* C9: for every base issue set, the score of the base plus one critical
\* issue is strictly lower than the score of the base plus one minor issue.
C9_StrictMonotone ==
  _calculateCompliance(Plus("critical")) < _calculateCompliance(Plus("minor"))

\* C9 as amended: the score of the base plus one critical issue is never
\* higher than that of the base plus one minor issue, and it is strictly
\* lower whenever the base holds fewer than 95 issues.
C9_MonotoneAmended ==
  /\ _calculateCompliance(Plus("critical"))
       <= _calculateCompliance(Plus("minor"))
  /\ HarnessTotal < 95 =>
       _calculateCompliance(Plus("critical"))
         < _calculateCompliance(Plus("minor"))

\* a base of at least 95 issues for which both scores are the same
C9_Witness ==
  /\ HarnessTotal >= 95
  /\ _calculateCompliance(Plus("critical"))
       = _calculateCompliance(Plus("minor"))

\* C10: the Scorer's status is FAILED if count(critical) > maxCriticalIssues
\* or if failOnSerious and count(serious) > maxSeriousIssues, and PASSED
\* otherwise; the moderate and minor counts never affect it.
C10_ScorerStatus ==
  results # null =>
    results.status =
      (IF \/ Exceeds(Len(results.issues.critical), config.maxCriticalIssues)
          \/ /\ config.failOnSerious
             /\ Exceeds(Len(results.issues.serious), config.maxSeriousIssues)
       THEN "FAILED" ELSE "PASSED")

\* an AuditResult that passes with a serious issue over its threshold,
\* because failOnSerious is off
C10_Witness ==
  /\ results # null
  /\ results.status = "PASSED"
  /\ ~config.failOnSerious
  /\ Exceeds(Len(results.issues.serious), config.maxSeriousIssues)

\* count <= threshold as the specification reads it: a count is within a
\* maximum only when the maximum is a number
Within(count, threshold) ==
  IF threshold.nan THEN FALSE ELSE count <= threshold.v

\* C11: each of the three count checks passes exactly when its count is
\* within its configured maximum, and reports the count as current and the
\* configured maximum as threshold
C11_CountChecks ==
  complianceResult # null =>
    LET c == complianceResult.checks
        s == results.summary
    IN /\ c.criticalIssues.passed <=> Within(s.critical, config.maxCriticalIssues)
       /\ c.seriousIssues.passed <=> Within(s.serious, config.maxSeriousIssues)
       /\ c.moderateIssues.passed <=> Within(s.moderate, config.maxModerateIssues)
       /\ c.criticalIssues.current = s.critical
       /\ c.seriousIssues.current = s.serious
       /\ c.moderateIssues.current = s.moderate
       /\ c.criticalIssues.threshold = config.maxCriticalIssues
       /\ c.seriousIssues.threshold = config.maxSeriousIssues
       /\ c.moderateIssues.threshold = config.maxModerateIssues

\* a result in which one count check failed and another passed on a count
\* that is not zero
C11_Witness ==
  /\ complianceResult # null
  /\ ~complianceResult.checks.criticalIssues.passed
  /\ complianceResult.checks.seriousIssues.passed
  /\ complianceResult.checks.seriousIssues.current = 1

\* a positive maximum of critical issues that the critical count reaches
\* without exceeding it
ToleratedCriticals ==
  /\ ~config.maxCriticalIssues.nan
  /\ config.maxCriticalIssues.v > 0
  /\ results.summary.critical > 0
  /\ results.summary.critical <= config.maxCriticalIssues.v

\* C12 as stated: wcagCompliance.passed is true exactly when there is no
\* critical issue, and with tolerated critical issues the criticalIssues
\* check and the overall passed are true while wcagCompliance.passed is false
C12_WcagZeroTolerance ==
  complianceResult # null =>
    /\ complianceResult.checks.wcagCompliance.passed
         <=> results.summary.critical = 0
    /\ ToleratedCriticals =>
         /\ complianceResult.checks.criticalIssues.passed
         /\ complianceResult.passed
         /\ ~complianceResult.checks.wcagCompliance.passed

\* C12 amended: wcagCompliance.passed is true exactly when there is no
\* critical issue; with tolerated critical issues the criticalIssues check is
\* true and wcagCompliance.passed is false, and the overall passed is true
\* unless failOnSerious is set and the serious count is not within its maximum
C12_WcagZeroToleranceAmended ==
  complianceResult # null =>
    /\ complianceResult.checks.wcagCompliance.passed
         <=> results.summary.critical = 0
    /\ ToleratedCriticals =>
         /\ complianceResult.checks.criticalIssues.passed
         /\ ~complianceResult.checks.wcagCompliance.passed
         /\ complianceResult.passed
              <=> ~(config.failOnSerious
                    /\ ~Within(results.summary.serious, config.maxSeriousIssues))

\* a passed result whose critical count is tolerated and whose WCAG check
\* failed
C12_Witness ==
  /\ complianceResult # null
  /\ ToleratedCriticals
  /\ complianceResult.passed
  /\ ~complianceResult.checks.wcagCompliance.passed

\* the four checks of the result main() holds, in the order critical,
\* serious, moderate, wcag
FourChecks ==
  <<complianceResult.checks.criticalIssues,
    complianceResult.checks.seriousIssues,
    complianceResult.checks.moderateIssues,
    complianceResult.checks.wcagCompliance>>

\* C13: report.allChecksPassed is true exactly when all four checks passed,
\* and whenever it is true the overall passed is true
C13_AllChecksPassed ==
  complianceResult # null =>
    /\ complianceResult.report.allChecksPassed
         <=> \A i \in 1..4 : FourChecks[i].passed
    /\ complianceResult.report.allChecksPassed => complianceResult.passed

\* the converse fails: only the moderate count is over its maximum,
\* failOnSerious is off, passed is true and allChecksPassed is false
C13_Witness ==
  /\ complianceResult # null
  /\ ~config.failOnSerious
  /\ ~complianceResult.checks.moderateIssues.passed
  /\ complianceResult.checks.criticalIssues.passed
  /\ complianceResult.checks.seriousIssues.passed
  /\ complianceResult.checks.wcagCompliance.passed
  /\ complianceResult.passed
  /\ ~complianceResult.report.allChecksPassed

\* C14: report.summary is the list of the messages of the critical, serious,
\* moderate and wcag checks in that order, and report.details is the list of
\* those four checks in the same order; the compliance score adds no entry
C14_ReportOrder ==
  complianceResult # null =>
    /\ Len(complianceResult.report.summary) = 4
    /\ complianceResult.report.summary = [i \in 1..4 |-> FourChecks[i].message]
    /\ complianceResult.report.details = FourChecks

\* a report built for a result whose compliance score is below 100 and whose
\* four messages are not all alike
C14_Witness ==
  /\ complianceResult # null
  /\ complianceResult.checks.complianceScore < 100
  /\ Len(complianceResult.report.summary) = 4
  /\ complianceResult.report.summary[1].mark = "cross"
  /\ complianceResult.report.summary[2].mark = "tick"

\* C15: each of the four checks has the fields metric, current, threshold,
\* passed and message, and its message reads mark, metric, within or exceed,
\* current and threshold, with the success mark and "within" exactly when
\* the check passed
C15_CheckShape ==
  complianceResult # null =>
    \A i \in 1..4 :
      LET k == FourChecks[i]
      IN /\ DOMAIN k = {"metric", "current", "threshold", "passed", "message"}
         /\ DOMAIN k.message = {"mark", "label", "verb", "current", "threshold"}
         /\ k.message.mark = (IF k.passed THEN "tick" ELSE "cross")
         /\ k.message.verb = (IF k.passed THEN "within" ELSE "exceed")
         /\ k.message.current = k.current
         /\ k.message.threshold = k.threshold

\* C16: a second invocation of check() with the AuditResult and the
\* configuration of the first returns a result equal to the first in every
\* field
C16_CheckDeterministic ==
  complianceResult # null =>
    check(results, config, now) = complianceResult

\* C17: whether or not the POST is delivered, main() leaves the notification
\* step for the exit decision with the ComplianceResult, the caught error
\* and the exit code untouched, and the exit code it then passes depends on
\* the ComplianceResult alone
C17_NotifySwallowed ==
  [][/\ (pc = "notify" /\ pc' # "notify") =>
          /\ pc' = "decide"
          /\ UNCHANGED <<complianceResult, error, exitCode>>
     /\ (pc = "decide" /\ pc' # "decide") =>
          exitCode' = (IF complianceResult.passed THEN 0 ELSE 1)]_vars

\* a run with a webhook configured whose POST failed and that exited with 0
C17_Witness ==
  /\ pc = "exit"
  /\ config.notificationWebhook # ""
  /\ error = "none"
  /\ webhookPosts = <<>>
  /\ complianceResult.passed
  /\ exitCode = 0

\* C18: a run request that fails (the scan throws, classification throws or
\* the report write throws) is answered with a 5xx whose body holds an error
\* message and nothing else, and leaves latestAudit and auditHistory as they
\* were
C18_RunFailure ==
  [][\A r \in 1..MaxRuns :
       (runs[r].pc = "auditing" /\ runs'[r].pc = "done") =>
         /\ runResponse'.status \in 500..599
         /\ DOMAIN runResponse'.body = {"error"}
         /\ UNCHANGED <<latestAudit, auditHistory>>]_vars

\* a failed request answered after an earlier request had stored its record
C18_Witness ==
  /\ runResponse # null
  /\ runResponse.status = 500
  /\ latestAudit # null
  /\ Len(auditHistory) = 1

\* C19: no scan is started under a configuration that validateConfig rejects
C19_ValidatedBeforeScan ==
  \A r \in 1..MaxRuns :
    runs[r].pc = "auditing" => ~validateConfig(config).threw

\* C20: each of the twelve known codes yields its table entries (image-alt
\* gives level A and the criterion 1.1.1), and every other code yields level
\* AA and the generic criterion
C20_LookupTotal ==
  /\ tCode \in DOMAIN levelMap =>
       tLevel = levelMap[tCode] /\ tCriteria = criteriaMap[tCode]
  /\ tCode = "image-alt" =>
       tLevel = "A" /\ tCriteria = "WCAG 2.1 Level A - 1.1.1 Non-text Content"
  /\ tCode \notin DOMAIN levelMap =>
       /\ tLevel = "AA"
       /\ tCriteria = "WCAG 2.1 Level A - General Accessibility"

\* C21: a report generation writes the file of the current date and no
\* other: after it the JSON (HTML) file of that date holds the report just
\* built, whatever an earlier generation of the same date had written, and
\* the files of the other dates are as they were
C21_OneReportPerDate ==
  [][/\ \A d \in Days :
          /\ jsonFiles'[d] # jsonFiles[d] => d = Day(now)
          /\ htmlFiles'[d] # htmlFiles[d] => d = Day(now)
     /\ (pc = "json" /\ pc' = "html") =>
          jsonFiles'[Day(now)] = File(_buildReport(results, config, now))
     /\ (pc = "html" /\ pc' = "notify") =>
          htmlFiles'[Day(now)] = File(_buildHTMLReport(results, config))]_vars

\* the reports of a run with two findings have replaced the reports the
\* earlier run wrote on the same date
C21_Witness ==
  /\ results # null
  /\ results.summary.total = 2
  /\ jsonFiles[Day(0)].exists
  /\ jsonFiles[Day(0)].content.summary.total_issues = 2
  /\ htmlFiles[Day(0)].exists
  /\ htmlFiles[Day(0)].content.summary.total = 2

\* C22: the history query returns at most 20 records, and they are the
\* most recently appended records in append order
C22_HistoryBounded ==
  (queryResponse # null /\ queryResponse.route = "history") =>
    LET body == queryResponse.body
        skipped == Len(auditHistory) - Len(body)
    IN /\ Len(body) <= 20
       /\ Len(body) = (IF Len(auditHistory) <= 20 THEN Len(auditHistory) ELSE 20)
       /\ \A i \in 1..Len(body) : body[i] = auditHistory[skipped + i]

\* the query answered by a service that holds more than 20 records
C22_Witness ==
  /\ queryResponse # null
  /\ queryResponse.route = "history"
  /\ Len(auditHistory) > 20
  /\ Len(queryResponse.body) = 20
  /\ queryResponse.body[1] = auditHistory[Len(auditHistory) - 19]
  /\ queryResponse.body[1] # auditHistory[1]

\* the order of the steps of main(), as pairs of positions
StepOrder ==
  {<<"start", "audit">>, <<"audit", "check">>, <<"check", "json">>,
   <<"json", "html">>, <<"html", "notify">>, <<"notify", "decide">>,
   <<"decide", "exit">>}

\* C23: main() moves from one step to the next in the order validation,
\* scan, check, JSON report, HTML report, notification, exit, or from a
\* step that threw to the exit; the scan result, the ComplianceResult, the
\* two report files and the webhook post are each produced in their own
\* step only, the post only with a webhook configured, and nothing is
\* produced after the exit
C23_StepOrder ==
  [][/\ pc' # pc =>
          \/ <<pc, pc'>> \in StepOrder
          \/ /\ pc \in {"start", "audit", "json", "html"}
             /\ pc' = "exit"
             /\ error' # "none"
     /\ (scanOutcome' # scanOutcome \/ results' # results) => pc = "audit"
     /\ complianceResult' # complianceResult => pc = "check"
     /\ jsonFiles' # jsonFiles => pc = "json"
     /\ htmlFiles' # htmlFiles => pc = "html"
     /\ webhookPosts' # webhookPosts =>
          pc = "notify" /\ config.notificationWebhook # ""
     /\ exitCode' # exitCode => pc' = "exit"]_vars

\* a run that went through every step: both reports written, the webhook
\* notified, exit reached without an error
C23_Witness ==
  /\ pc = "exit"
  /\ error = "none"
  /\ complianceResult # null
  /\ \E d \in Days : jsonFiles[d].exists /\ htmlFiles[d].exists
  /\ Len(webhookPosts) = 1

\* the tier the specification gives a compliance score
ClaimedTier(score) ==
  CASE score >= 95 -> "Gold - Excellent Accessibility"
    [] score >= 85 /\ score < 95 -> "Silver - Good Accessibility"
    [] score >= 70 /\ score < 85 -> "Bronze - Fair Accessibility"
    [] score < 70 -> "Non-Compliant"

C25_AppendOnly ==
  /\ auditHistory = <<>>
  /\ [][/\ auditHistory' # auditHistory =>
              /\ Len(auditHistory') = Len(auditHistory) + 1
              /\ SubSeq(auditHistory', 1, Len(auditHistory)) = auditHistory
              /\ runResponse'.status = 200
              /\ auditHistory'[Len(auditHistory')] = runResponse'.body.audit
         /\ \A r \in 1..MaxRuns :
              (runs[r].pc = "reporting" /\ runs'[r].pc = "done") =>
                Len(auditHistory') = Len(auditHistory) + 1]_vars

\* two runs have stored their records
C25_Witness ==
  /\ Len(auditHistory) = 2
  /\ \A r \in 1..MaxRuns : runs[r].pc = "done"

\* C26: latestAudit is null exactly when the history is empty and is the
\* last record of the history otherwise, so the latest-audit query answers
\* with the last record of the history query
C26_LatestIsLast ==
  /\ latestAudit = null <=> auditHistory = <<>>
  /\ auditHistory # <<>> =>
       /\ latestAudit = auditHistory[Len(auditHistory)]
       /\ getLatest(latestAudit).body
            = getHistory(auditHistory).body[Len(getHistory(auditHistory).body)]
  /\ auditHistory = <<>> => getLatest(latestAudit).status = 404

\* one of two overlapping requests has stored its record while the other
\* has written its report and not stored its record yet
C26_Witness ==
  /\ Len(auditHistory) = 1
  /\ latestAudit # null
  /\ \E r \in 1..MaxRuns : runs[r].pc = "reporting"

\* C27: no two records of the history share an id, and the lookup by the
\* id of a stored record answers with that record
C27_UniqueIds ==
  /\ \A i, j \in 1..Len(auditHistory) :
       i # j => auditHistory[i].id # auditHistory[j].id
  /\ \A i \in 1..Len(auditHistory) :
       getById(auditHistory, auditHistory[i].id).body = auditHistory[i]

\* the file at the reportPath of a record holds a report with the status,
\* the compliance score and the summary counts of the record
HoldsReportOf(rec) ==
  LET file == jsonFiles[rec.reportPath]
  IN /\ file.exists
     /\ file.content.auditResults.status = rec.status
     /\ file.content.auditResults.complianceScore = rec.complianceScore
     /\ file.content.summary.total_issues = rec.summary.total
     /\ file.content.summary.critical = rec.summary.critical
     /\ file.content.summary.serious = rec.summary.serious
     /\ file.content.summary.moderate = rec.summary.moderate
     /\ file.content.summary.minor = rec.summary.minor

\* C28 as stated: the file at the reportPath of every record of the history
\* holds the report of that record's audit
C28_ReportOfRecord ==
  \A i \in 1..Len(auditHistory) : HoldsReportOf(auditHistory[i])

\* no other run has written a report to the reportPath of the i-th record:
\* no other record names that path, and no run that has written its report
\* and not stored its record yet
SoleWriter(i) ==
  /\ \A j \in 1..Len(auditHistory) :
       j # i => auditHistory[j].reportPath # auditHistory[i].reportPath
  /\ \A r \in 1..MaxRuns :
       runs[r].pc = "reporting" =>
         runs[r].reportPath # auditHistory[i].reportPath

\* C28 amended: the file at the reportPath of every record exists, and it
\* holds the report of that record's audit whenever no other run has written
\* a report of the same date
C28_ReportOfRecordAmended ==
  \A i \in 1..Len(auditHistory) :
    /\ jsonFiles[auditHistory[i].reportPath].exists
    /\ SoleWriter(i) => HoldsReportOf(auditHistory[i])

\* two records of two dates and two different outcomes, each with its own
\* report on the disk
C28_Witness ==
  /\ Len(auditHistory) = 2
  /\ auditHistory[1].reportPath # auditHistory[2].reportPath
  /\ auditHistory[1].status # auditHistory[2].status
  /\ HoldsReportOf(auditHistory[1])
  /\ HoldsReportOf(auditHistory[2])

\* the report with the latest date in the output directory
LatestReport ==
  jsonFiles[CHOOSE d \in Days :
              /\ jsonFiles[d].exists
              /\ \A e \in Days : jsonFiles[e].exists => e <= d].content

\* the passed value the Threshold Checker gave in the run that wrote a
\* report: the run of this invocation of the CLI, or the earlier run
WriterPassed(content) ==
  IF /\ complianceResult # null
     /\ content = _buildReport(results, config, content.metadata.generatedAt)
  THEN complianceResult.passed
  ELSE LET p == CHOOSE q \in PriorAudits(config) :
                  content = _buildReport(q, config, 0)
       IN check(p, config, 0).passed

\* C29: when the compliance-check script reaches a result, its passed value
\* is the one the Threshold Checker gave in the run that wrote the report
\* with the latest date, and its exit code is 0 exactly when that value is
\* true
C29_RoundTrip ==
  [][(checkPc = "start" /\ checkPc' = "exit" /\ checkResult' # null) =>
       /\ checkResult'.passed = WriterPassed(LatestReport)
       /\ checkExit' = (IF WriterPassed(LatestReport) THEN 0 ELSE 1)]_vars

\* the script has run after a CLI run that wrote its report on a later date
\* than the earlier run, and has reached the verdict and the score of the
\* later report, which are not those of the earlier one
C29_Witness ==
  /\ checkPc = "exit"
  /\ checkResult # null
  /\ pc = "exit"
  /\ complianceResult # null
  /\ jsonFiles[Day(0)].exists
  /\ jsonFiles[Day(MaxTime)].exists
  /\ Day(0) # Day(MaxTime)
  /\ checkResult.passed = complianceResult.passed
  /\ checkResult.checks.complianceScore = results.compliance
  /\ jsonFiles[Day(0)].content.auditResults.complianceScore # results.compliance
  /\ check(reconstruct(jsonFiles[Day(0)].content), config, 0).passed
       # checkResult.passed

\* C30: the url of the AuditResult main() holds, and of the audit results
\* block of every persisted report, is the URL that was passed to audit()
C30_UrlIsAuditedUrl ==
  /\ results # null => results.url = config.auditUrl
  /\ \A d \in Days :
       jsonFiles[d].exists =>
         jsonFiles[d].content.auditResults.url = config.auditUrl

====
